---- MODULE Spec2Model ----
(***************************************************************************)
(* A model of main.py of digraph-plot: the drawing helpers (dir2d,         *)
(* draw_circle, create_arrow_patch), the Node methods (draw, arrowto,      *)
(* curvearrowto, loop) and example(), acting on the current axes of        *)
(* matplotlib (here: surface, the sequence of shapes added so far).        *)
(*                                                                         *)
(* Floats are fixed-point integers.  A length x is the integer x * UNIT,   *)
(* an angle (in degrees or in radians, the code uses one float for both)   *)
(* and a cosine or sine v is the integer v * FIX.  Every product is kept   *)
(* below 2^31.  Equalities of the source that hold only up to rounding are *)
(* stated with the tolerances LenTol and AngTol.                           *)
(***************************************************************************)
EXTENDS Integers, Sequences, FiniteSets, TLC

VARIABLES
    mode,      \* "main": run as a script (line 149); "lib": imported, a client calls
    pc,        \* main: index of the next statement of example()
    nodes,     \* the Node objects constructed so far: name -> fields
    globals,   \* the module-level style constants (lines 11-22)
    surface,   \* plt.gca(): the shapes added so far, in the order of addition
    saved,     \* how many times plt.savefig has run
    log        \* history: one record for each call of a Node method

vars == <<mode, pc, nodes, globals, surface, saved, log>>

(***************************************************************************)
(* Fixed-point arithmetic.                                                 *)
(***************************************************************************)
UNIT == 1000
FIX == 10000

Abs(x) == IF x < 0 THEN -x ELSE x

\* x / d rounded to the nearest integer (d > 0)
RoundDiv(x, d) == (2 * x + d) \div (2 * d)

\* pi, pi/2, pi/4 and 2*pi in units of 1/FIX
PI == 31416
HALF_PI == 15708
QUARTER_PI == 7854
TWO_PI == 62832

\* np.radians: degrees (1/FIX) to radians (1/FIX), angle * pi / 180.
\* pi/180 = 0.0174533; the whole degrees and the fraction are converted apart.
Radians(angle) ==
    RoundDiv((angle \div FIX) * 174533, 1000)
        + RoundDiv((angle % FIX) * 17453, 1000000)

\* x*y for two numbers in units of 1/FIX
MulFix(x, y) == RoundDiv(x * y, FIX)

\* cosine and sine of x in [0, pi/2] by their Taylor series
CosSeries(x) ==
    LET x2 == MulFix(x, x)
        t1 == RoundDiv(x2, 2)
        t2 == RoundDiv(MulFix(t1, x2), 12)
        t3 == RoundDiv(MulFix(t2, x2), 30)
        t4 == RoundDiv(MulFix(t3, x2), 56)
        t5 == RoundDiv(MulFix(t4, x2), 90)
    IN  FIX - t1 + t2 - t3 + t4 - t5

SinSeries(x) ==
    LET x2 == MulFix(x, x)
        t1 == RoundDiv(MulFix(x, x2), 6)
        t2 == RoundDiv(MulFix(t1, x2), 20)
        t3 == RoundDiv(MulFix(t2, x2), 42)
        t4 == RoundDiv(MulFix(t3, x2), 72)
        t5 == RoundDiv(MulFix(t4, x2), 110)
    IN  x - t1 + t2 - t3 + t4 - t5

\* theta reduced to (-pi, pi]
WrapPi(theta) ==
    LET r == theta % TWO_PI
    IN  IF r > PI THEN r - TWO_PI ELSE r

\* np.cos, np.sin of theta radians (1/FIX)
Cos(theta) ==
    LET a == Abs(WrapPi(theta))
    IN  IF a <= HALF_PI THEN CosSeries(a) ELSE -CosSeries(PI - a)

Sin(theta) ==
    LET w == WrapPi(theta)
        a == Abs(w)
        s == IF a <= HALF_PI THEN SinSeries(a) ELSE SinSeries(PI - a)
    IN  IF w < 0 THEN -s ELSE s

\* arctan of the ratio n/d, 0 <= n <= d, d > 0, in radians (1/FIX):
\* arctan z = pi/4 - arctan((1-z)/(1+z)) brings the argument below tan(pi/8)
AtanSeries(z) ==
    LET z2 == MulFix(z, z)
        t1 == MulFix(z, z2)
        t2 == MulFix(t1, z2)
        t3 == MulFix(t2, z2)
        t4 == MulFix(t3, z2)
        t5 == MulFix(t4, z2)
    IN  z - RoundDiv(t1, 3) + RoundDiv(t2, 5) - RoundDiv(t3, 7)
          + RoundDiv(t4, 9) - RoundDiv(t5, 11)

AtanRatio(n, d) ==
    IF 5 * n <= 2 * d
    THEN AtanSeries(RoundDiv(n * FIX, d))
    ELSE QUARTER_PI - AtanSeries(RoundDiv((d - n) * FIX, d + n))

\* np.arctan2(y, x) in radians (1/FIX); arctan2(0, 0) = 0, arctan2(0, x<0) = pi
Arctan2(y, x) ==
    LET ay == Abs(y)
        ax == Abs(x)
        a  == IF ax = 0 /\ ay = 0 THEN 0
              ELSE IF ay <= ax THEN AtanRatio(ay, ax)
              ELSE HALF_PI - AtanRatio(ax, ay)
        b  == IF x < 0 THEN PI - a ELSE a
    IN  IF y < 0 THEN -b ELSE b

\* dir2d (lines 25-28): "Angle in degrees to a unit vector in 2D."
dir2d(angle) ==
    LET theta == Radians(angle)
    IN  <<Cos(theta), Sin(theta)>>


(***************************************************************************)
(* Vectors (np.ndarray of two floats) and values of the style dictionaries *)
(***************************************************************************)
VAdd(p, q) == <<p[1] + q[1], p[2] + q[2]>>
VSub(p, q) == <<p[1] - q[1], p[2] - q[2]>>

\* a length times a pair of 1/FIX numbers: radius * dir2d(angle)
VScale(r, d) == <<RoundDiv(r * d[1], FIX), RoundDiv(r * d[2], FIX)>>

\* Python's None, as a colour and as a connection style
None == "None"
NoneStyle == [style |-> "None"]

\* the empty **kwargs
NoKwargs == [k \in {} |-> None]

\* dict.update: d with every key of kw set to kw's value
Update(d, kw) ==
    [k \in DOMAIN d \cup DOMAIN kw |-> IF k \in DOMAIN kw THEN kw[k] ELSE d[k]]

\* dict.get(key, default)
Get(d, key, default) == IF key \in DOMAIN d THEN d[key] ELSE default

(***************************************************************************)
(* Module-level constants (lines 11-22).  lw is in units of 1/UNIT.        *)
(***************************************************************************)
SHADOW_DIR == -45 * FIX
SHADOW_OFFSET == 850
SHADOW_COLOR == "gray"
DEFAULT_ARROW_STYLE ==
    [arrowstyle |-> "-|>,head_width=0.12,head_length=0.4",
     fc |-> "k",
     ec |-> "k",
     lw |-> 1250,
     shrinkA |-> 4,
     shrinkB |-> 1,
     mutation_scale |-> 15]

\* the stacking level matplotlib gives a patch and a text that set no zorder
PATCH_ZORDER == 1
TEXT_ZORDER == 3
SHADOW_ZORDER == -1

\* the connection style of a FancyArrowPatch built without one
ARC3 == [style |-> "arc3"]

(***************************************************************************)
(* Shapes.  Every shape has a kind and a zorder (its stacking level).      *)
(***************************************************************************)
\* a length or a vector times a float factor (1/FIX)
Times(x, f) == RoundDiv(x * f, FIX)
VTimes(p, f) == <<Times(p[1], f), Times(p[2], f)>>

\* Circle(xy, radius, fc=, ec=, lw=) (line 33)
Circle(xy, radius, fc, ec, lw) ==
    [kind |-> "circle", xy |-> xy, radius |-> radius,
     fc |-> fc, ec |-> ec, lw |-> lw, zorder |-> PATCH_ZORDER]

\* Shadow(c, ox, oy, fc=, ec=, lw=, zorder=) (line 37): a copy of c moved by offset
Shadow(c, offset, fc, ec, lw, zorder) ==
    [kind |-> "shadow", xy |-> VAdd(c.xy, offset), radius |-> c.radius,
     fc |-> fc, ec |-> ec, lw |-> lw, zorder |-> zorder]

\* the zorder the shadow is given (line 37)
ShadowZorderNoArg == PATCH_ZORDER
ShadowZorder == SHADOW_ZORDER

\* draw_circle (lines 31-38): the shapes one invocation adds to the axes.
\* call is the invocation: [xy, radius, with_shadow, fc, ec, lw].
draw_circle(call) ==
    LET c == Circle(call.xy, call.radius, call.fc, call.ec, call.lw)
        offset == VTimes(VScale(call.radius, dir2d(globals.SHADOW_DIR)),
                         globals.SHADOW_OFFSET)
        shadow == Shadow(c, offset, globals.SHADOW_COLOR, "none", 0, ShadowZorder)
    IN  IF call.with_shadow THEN <<c, shadow>> ELSE <<c>>

\* one invocation of draw_circle with the default with_shadow=True
CircleCall(xy, radius, fc, ec, lw) ==
    [xy |-> xy, radius |-> radius, with_shadow |-> TRUE,
     fc |-> fc, ec |-> ec, lw |-> lw]

(***************************************************************************)
(* create_arrow_patch (lines 41-49)                                        *)
(***************************************************************************)
\* the keyword arguments handed to FancyArrowPatch
ArrowParamsColorFirst(kwargs) ==
    LET color == Get(kwargs, "color", None)
        params == IF color # None
                  THEN Update(globals.DEFAULT_ARROW_STYLE, [fc |-> color, ec |-> color])
                  ELSE globals.DEFAULT_ARROW_STYLE
    IN  Update(params, kwargs)

ArrowParams(kwargs) ==
    LET params == Update(globals.DEFAULT_ARROW_STYLE, kwargs)
        color == Get(kwargs, "color", None)
    IN  IF color # None
        THEN Update(params, [fc |-> color, ec |-> color])
        ELSE params

\* FancyArrowPatch(start, end, **params)
FancyArrowPatch(start, end, params) ==
    [kind |-> "arrow", start |-> start, end |-> end, params |-> params,
     connectionstyle |-> Get(params, "connectionstyle", ARC3),
     zorder |-> Get(params, "zorder", PATCH_ZORDER)]

create_arrow_patch(start, end, kwargs) ==
    FancyArrowPatch(start, end, ArrowParams(kwargs))

\* patch.set_connectionstyle(style)
set_connectionstyle(patch, style) == [patch EXCEPT !.connectionstyle = style]

\* plt.text(x, y, label, ha="center", va="center", **kwargs) (line 74)
Text(xy, label, kwargs) ==
    [kind |-> "text", xy |-> xy, label |-> label,
     params |-> Update([ha |-> "center", va |-> "center"], kwargs),
     zorder |-> Get(kwargs, "zorder", TEXT_ZORDER)]

(***************************************************************************)
(* Node (lines 52-117).  A node is [xy, label, accept, radius].            *)
(***************************************************************************)
Node(xy, label, accept, radius) ==
    [xy |-> xy, label |-> label, accept |-> accept, radius |-> radius]

\* 0.85, the inner disk's share of the radius (line 71)
INNER == 8500

\* Node.draw (lines 66-71): the invocations of draw_circle, in order
DrawCircleCallsSwapped(self, textonly, color) ==
    IF textonly THEN <<>>
    ELSE IF self.accept
    THEN <<CircleCall(self.xy, self.radius, color, "k", 1000)>>
    ELSE <<CircleCall(self.xy, self.radius, "w", "k", 1000),
           CircleCall(self.xy, Times(self.radius, INNER), color, "k", 1000)>>

DrawCircleCalls(self, textonly, color) ==
    IF textonly THEN <<>>
    ELSE IF ~self.accept
    THEN <<CircleCall(self.xy, self.radius, color, "k", 1000)>>
    ELSE <<CircleCall(self.xy, self.radius, "w", "k", 1000),
           CircleCall(self.xy, Times(self.radius, INNER), color, "k", 1000)>>

\* the shapes of a sequence of draw_circle invocations
RECURSIVE CircleShapes(_)
CircleShapes(calls) ==
    IF calls = <<>> THEN <<>>
    ELSE draw_circle(Head(calls)) \o CircleShapes(Tail(calls))

\* Node.draw (lines 65-75): the shapes one call adds
DrawShapes(self, textonly, color, kwargs) ==
    CircleShapes(DrawCircleCalls(self, textonly, color))
        \o (IF self.label # "" THEN <<Text(self.xy, self.label, kwargs)>> ELSE <<>>)

\* Node.draw (lines 65-75): the fields of self when draw returns it; draw assigns
\* to none of them (the inner disk's radius is a value, not an update)
DrawSelfShrunk(self, textonly, color) ==
    IF ~textonly /\ self.accept
    THEN [self EXCEPT !.radius = Times(self.radius, INNER)]
    ELSE self

DrawSelf(self, textonly, color) == self

\* Node.arrowto (lines 82-85)
ArrowtoAngle(self, other) ==
    LET v == VSub(other.xy, self.xy)
    IN  Arctan2(v[2], v[1])

ArrowtoStartInward(self, other) ==
    VSub(self.xy, VScale(self.radius, dir2d(ArrowtoAngle(self, other))))

ArrowtoStart(self, other) ==
    VAdd(self.xy, VScale(self.radius, dir2d(ArrowtoAngle(self, other))))

ArrowtoEndOutward(self, other) ==
    VAdd(other.xy, VScale(other.radius, dir2d(ArrowtoAngle(self, other))))

ArrowtoEnd(self, other) ==
    VSub(other.xy, VScale(other.radius, dir2d(ArrowtoAngle(self, other))))

\* Node.curvearrowto (lines 96-99)
CurveStart(self, angleA) == VAdd(self.xy, VScale(self.radius, dir2d(angleA)))
CurveEnd(other, angleB) == VSub(other.xy, VScale(other.radius, dir2d(angleB)))
Angle3(angleA, angleB) == [style |-> "angle3", angleA |-> angleA, angleB |-> angleB]

CurvePatchKeepStyle(self, other, angleA, angleB, kwargs) ==
    create_arrow_patch(CurveStart(self, angleA), CurveEnd(other, angleB), kwargs)

CurvePatch(self, other, angleA, angleB, kwargs) ==
    set_connectionstyle(
        create_arrow_patch(CurveStart(self, angleA), CurveEnd(other, angleB), kwargs),
        Angle3(angleA, angleB))

\* Node.loop (lines 108-116)
LOOP_HALF == 10 * FIX
Arc(angleA, angleB) ==
    [style |-> "arc", angleA |-> angleA, angleB |-> angleB,
     armA |-> 100, armB |-> 100, rad |-> 30]

LoopKwargsAlways(deg, kwargs) ==
    Update(kwargs, [connectionstyle |-> Arc(deg - LOOP_HALF, deg + LOOP_HALF)])

LoopKwargs(deg, kwargs) ==
    IF Get(kwargs, "connectionstyle", NoneStyle) = NoneStyle
    THEN Update(kwargs, [connectionstyle |-> Arc(deg - LOOP_HALF, deg + LOOP_HALF)])
    ELSE kwargs

LoopPatch(self, deg, kwargs) ==
    LET angleA == deg - LOOP_HALF
        angleB == deg + LOOP_HALF
        start == VAdd(self.xy, VScale(self.radius, dir2d(angleA)))
        end == VAdd(self.xy, VScale(self.radius, dir2d(angleB)))
    IN  create_arrow_patch(start, end, LoopKwargs(deg, kwargs))

(***************************************************************************)
(* example() (lines 120-146), one record for each statement.               *)
(***************************************************************************)
NewNodeStmt(name, xy, label, radius) ==
    [op |-> "node", name |-> name, node |-> Node(xy, label, TRUE, radius)]
DrawCall(self, textonly, color, kwargs) ==
    [op |-> "draw", self |-> self, textonly |-> textonly, color |-> color,
     kwargs |-> kwargs]
ArrowtoCall(self, other, kwargs) ==
    [op |-> "arrowto", self |-> self, other |-> other, kwargs |-> kwargs]
CurveCall(self, other, angleA, angleB, kwargs) ==
    [op |-> "curvearrowto", self |-> self, other |-> other,
     angleA |-> angleA * FIX, angleB |-> angleB * FIX, kwargs |-> kwargs]
LoopCall(self, deg, kwargs) ==
    [op |-> "loop", self |-> self, deg |-> deg * FIX, kwargs |-> kwargs]

ExampleDrawing ==
    << [op |-> "axes", what |-> "set_aspect"],                              \* 121
       [op |-> "axes", what |-> "axis_off"],                                \* 122
       NewNodeStmt("start_text", <<-700, 0>>, "start", 150),                \* 124
       DrawCall("start_text", TRUE, "g", [fontsize |-> 10, weight |-> "bold"]),
       NewNodeStmt("q0", <<0, 0>>, "$q_0$", 200),                           \* 127
       NewNodeStmt("q1", <<1000, 0>>, "$q_1$", 200),                        \* 128
       NewNodeStmt("q2", <<2000, 0>>, "$q_2$", 200),                        \* 129
       NewNodeStmt("q3", <<3000, 0>>, "$q_3$", 200),                        \* 130
       ArrowtoCall("start_text", "q0", NoKwargs),                           \* 132
       DrawCall("q0", FALSE, "r", NoKwargs),                                \* 133
       DrawCall("q1", FALSE, "g", NoKwargs),                                \* 135
       ArrowtoCall("q0", "q1", NoKwargs),                                   \* 136
       DrawCall("q2", FALSE, "g", NoKwargs),
       ArrowtoCall("q1", "q2", NoKwargs),
       DrawCall("q3", FALSE, "g", NoKwargs),
       ArrowtoCall("q2", "q3", NoKwargs),
       LoopCall("q0", 90, NoKwargs),                                        \* 139
       LoopCall("q1", 90, NoKwargs),
       CurveCall("q3", "q0", 250, 150, [color |-> "y"]),                    \* 141
       CurveCall("q1", "q2", -30, 30, NoKwargs),                            \* 142
       CurveCall("q3", "q1", 225, 135, NoKwargs) >>                         \* 143

AutoscaleStmt == [op |-> "axes", what |-> "autoscale_view"]                 \* 145
SaveFigStmt == [op |-> "savefig", fname |-> "automata.png"]                 \* 146

\* the export before the three curved arrows
ExampleProgramEarlySave ==
    SubSeq(ExampleDrawing, 1, 18) \o <<AutoscaleStmt, SaveFigStmt>>
        \o SubSeq(ExampleDrawing, 19, 21)

ExampleProgram == ExampleDrawing \o <<AutoscaleStmt, SaveFigStmt>>

(***************************************************************************)
(* The calls of a client that imports the module.                          *)
(***************************************************************************)
MaxCalls == 2

LibNodes ==
    { [A |-> Node(<<0, 0>>, "A", TRUE, 200), B |-> Node(xy, "", FALSE, 500)] :
        xy \in {<<1000, 0>>, <<0, 1000>>} }

LibDrawCalls ==
    { DrawCall(n, t, c, kw) :
        n \in {"A", "B"}, t \in BOOLEAN, c \in {"g", "r"},
        kw \in {NoKwargs, [zorder |-> -2]} }
LibArrowtoCalls ==
    { ArrowtoCall(p[1], p[2], kw) :
        p \in {<<"A", "B">>, <<"B", "A">>},
        kw \in {NoKwargs, [color |-> "y"], [zorder |-> -2], [zorder |-> 5]} }
LibCurveCalls ==
    { CurveCall(p[1], p[2], a[1], a[2], kw) :
        p \in {<<"A", "B">>, <<"B", "A">>},
        a \in {<<250, 150>>, <<-30, 30>>},
        kw \in {NoKwargs, [connectionstyle |-> ARC3]} }
LibLoopCalls ==
    { LoopCall(n, 90, kw) :
        n \in {"A", "B"},
        kw \in {NoKwargs, [connectionstyle |-> ARC3], [zorder |-> -2]} }

(***************************************************************************)
(* The inputs of the geometry specification: two nodes on a grid, one call *)
(***************************************************************************)
GridMax == 1
GridStep == UNIT
Grid == { <<x * GridStep, y * GridStep>> : x \in -GridMax..GridMax, y \in -GridMax..GridMax }
Radii == {200, 500, 1000}

GeomNodes ==
    { [A |-> Node(pA, "A", TRUE, rA), B |-> Node(pB, "B", FALSE, rB)] :
        pA \in {<<0, 0>>, <<-700, 500>>}, pB \in Grid, rA \in Radii, rB \in Radii }

\* every set of overrides of colour, fill, edge and line width
StyleKwargs ==
    { [k \in D |-> CASE k = "color" -> c [] k = "fc" -> "b" [] k = "ec" -> "c"
                     [] OTHER -> 2000] :
        D \in SUBSET {"color", "fc", "ec", "lw"}, c \in {None, "y"} }

GeomArrowtoCalls == { ArrowtoCall("A", "B", kw) : kw \in StyleKwargs }
GeomCurveCalls ==
    { CurveCall("A", "B", a, b, kw) :
        a \in {250, -30, 0, 90}, b \in {150, 30},
        kw \in {NoKwargs, [connectionstyle |-> ARC3], [color |-> "y"]} }
GeomLoopCalls ==
    { LoopCall(n, d, kw) :
        n \in {"A", "B"}, d \in {90, 0, -135, 200},
        kw \in {NoKwargs, [connectionstyle |-> ARC3], [connectionstyle |-> NoneStyle]} }

(***************************************************************************)
(* State machine                                                           *)
(***************************************************************************)
\* the statement example() is at, and whether a client may call
Stmts(op) ==
    IF mode = "main" /\ pc <= Len(ExampleProgram) /\ ExampleProgram[pc].op = op
    THEN {ExampleProgram[pc]}
    ELSE {}
Budget == mode = "lib" /\ Len(log) < MaxCalls
Calls(op, lib) == Stmts(op) \cup (IF Budget THEN lib ELSE {})

Advance == pc' = IF mode = "main" THEN pc + 1 ELSE pc

\* what a call that adds shapes does to the surface and the history
Added(call, shapes, extra) ==
    /\ surface' = surface \o shapes
    /\ log' = Append(log, call @@ extra @@
                  [first |-> Len(surface) + 1, last |-> Len(surface) + Len(shapes)])
    /\ Advance
    /\ UNCHANGED <<mode, globals, saved>>

\* plt.gca().set_aspect, plt.axis, autoscale_view: no shape is added
Axes(c) ==
    /\ Advance
    /\ UNCHANGED <<mode, nodes, globals, surface, saved, log>>

\* Node.__init__ (lines 59-63)
NewNode(c) ==
    /\ nodes' = (c.name :> c.node) @@ nodes
    /\ Advance
    /\ UNCHANGED <<mode, globals, surface, saved, log>>

\* Node.draw (lines 65-75)
Draw(c) ==
    /\ c.self \in DOMAIN nodes
    /\ nodes' = [nodes EXCEPT ![c.self] = DrawSelf(nodes[c.self], c.textonly, c.color)]
    /\ Added(c, DrawShapes(nodes[c.self], c.textonly, c.color, c.kwargs),
             [circles |-> DrawCircleCalls(nodes[c.self], c.textonly, c.color)])

\* Node.arrowto (lines 77-87)
ArrowTo(c) ==
    /\ {c.self, c.other} \subseteq DOMAIN nodes
    /\ UNCHANGED nodes
    /\ Added(c, <<create_arrow_patch(ArrowtoStart(nodes[c.self], nodes[c.other]),
                                     ArrowtoEnd(nodes[c.self], nodes[c.other]),
                                     c.kwargs)>>, <<>>)

\* Node.curvearrowto (lines 89-101)
CurveArrowTo(c) ==
    /\ {c.self, c.other} \subseteq DOMAIN nodes
    /\ UNCHANGED nodes
    /\ UNCHANGED nodes
    /\ Added(c, <<CurvePatch(nodes[c.self], nodes[c.other], c.angleA, c.angleB,
                             c.kwargs)>>, <<>>)

\* Node.loop (lines 103-117)
Loop(c) ==
    /\ c.self \in DOMAIN nodes
    /\ UNCHANGED nodes
    /\ Added(c, <<LoopPatch(nodes[c.self], c.deg, c.kwargs)>>, <<>>)

\* plt.savefig("automata.png", ...) (line 146)
SaveFig(c) ==
    /\ saved' = saved + 1
    /\ Advance
    /\ UNCHANGED <<mode, nodes, globals, surface, log>>

GlobalsInit ==
    [SHADOW_DIR |-> SHADOW_DIR, SHADOW_OFFSET |-> SHADOW_OFFSET,
     SHADOW_COLOR |-> SHADOW_COLOR, DEFAULT_ARROW_STYLE |-> DEFAULT_ARROW_STYLE]

\* run as a script (line 149-150), or imported by a client that made two nodes
Init ==
    /\ globals = GlobalsInit
    /\ surface = <<>>
    /\ saved = 0
    /\ log = <<>>
    /\ \/ mode = "main" /\ pc = 1 /\ nodes = <<>>
       \/ mode = "lib" /\ pc = 0 /\ nodes \in LibNodes

Next ==
    \/ \E c \in Stmts("axes") : Axes(c)
    \/ \E c \in Stmts("node") : NewNode(c)
    \/ \E c \in Calls("draw", LibDrawCalls) : Draw(c)
    \/ \E c \in Calls("arrowto", LibArrowtoCalls) : ArrowTo(c)
    \/ \E c \in Calls("curvearrowto", LibCurveCalls) : CurveArrowTo(c)
    \/ \E c \in Calls("loop", LibLoopCalls) : Loop(c)
    \/ \E c \in Stmts("savefig") : SaveFig(c)

Spec == Init /\ [][Next]_vars

\* one call of arrowto, curvearrowto or loop on any two nodes of the grid
InitGeom ==
    /\ globals = GlobalsInit
    /\ surface = <<>>
    /\ saved = 0
    /\ log = <<>>
    /\ mode = "lib"
    /\ pc = 0
    /\ nodes \in GeomNodes

NextGeom ==
    \/ \E c \in GeomArrowtoCalls : log = <<>> /\ ArrowTo(c)
    \/ \E c \in GeomCurveCalls : log = <<>> /\ CurveArrowTo(c)
    \/ \E c \in GeomLoopCalls : log = <<>> /\ Loop(c)

SpecGeom == InitGeom /\ [][NextGeom]_vars

(***************************************************************************)
(* Properties.  Geometry is compared up to LenTol (a length, 1/UNIT) and   *)
(* AngTol (an angle in radians, 1/FIX), the rounding of the fixed point.   *)
(***************************************************************************)
LenTol == 1
AngTol == 50

Dot(p, q) == p[1] * q[1] + p[2] * q[2]
Dist2(p, q) == Dot(VSub(p, q), VSub(p, q))

\* p is on the circle of centre c and radius r
OnCircle(p, c, r) ==
    /\ Dist2(p, c) >= (r - LenTol) * (r - LenTol)
    /\ Dist2(p, c) <= (r + LenTol) * (r + LenTol)

\* p is strictly inside the circle of centre c and radius r
StrictlyInside(p, c, r) == Dist2(p, c) < (r - LenTol) * (r - LenTol)

\* the angles a and b (radians) agree
SameAngle(a, b) == Abs(WrapPi(a - b)) <= AngTol

\* the direction of the vector from p to q, in radians
Bearing(p, q) == Arctan2(q[2] - p[2], q[1] - p[1])

\* the point of the segment from s to e nearest to c
ClosestOnSegment(s, e, c) ==
    LET u == VSub(e, s)
        num == Dot(VSub(c, s), u)
        den == Dot(u, u)
    IN  IF den = 0 \/ num <= 0 THEN s
        ELSE IF num >= den THEN e
        ELSE LET t == IF num < 2000000 THEN (num * 1000) \div den
                      ELSE num \div (den \div 1000)
             IN  <<s[1] + RoundDiv(u[1] * t, 1000), s[2] + RoundDiv(u[2] * t, 1000)>>

\* some point of the segment from s to e is strictly inside the circle (c, r)
SegmentEnters(s, e, c, r) == StrictlyInside(ClosestOnSegment(s, e, c), c, r)

\* the calls of one method in the history, and what a call added
Entries(op) == {i \in DOMAIN log : log[i].op = op}
Shapes(i) == SubSeq(surface, log[i].first, log[i].last)
ShapeOf(i) == surface[log[i].first]
OneArrow(i) == log[i].last = log[i].first /\ ShapeOf(i).kind = "arrow"
KindCount(sh, kind) == Cardinality({j \in DOMAIN sh : sh[j].kind = kind})

\* C1: one call of Node.draw invokes draw_circle twice on an accepting node (the
\* outer white ring of the node's radius, then the inner disk in the given colour),
\* once on a non-accepting node, and never when textonly is true; each invocation
\* adds one circle to the surface.
C1_DrawCircleCount ==
    \A i \in Entries("draw") :
        LET e == log[i]
            n == nodes[e.self]
            k == Len(e.circles)
        IN  /\ KindCount(Shapes(i), "circle") = k
            /\ e.textonly => k = 0
            /\ (~e.textonly /\ ~n.accept) =>
                  /\ k = 1
                  /\ e.circles[1].fc = e.color
                  /\ e.circles[1].radius = n.radius
            /\ (~e.textonly /\ n.accept) =>
                  /\ k = 2
                  /\ e.circles[1].fc = "w"
                  /\ e.circles[1].radius = n.radius
                  /\ e.circles[2].fc = e.color
                  /\ e.circles[2].radius < n.radius

C1_Witness ==
    /\ \E i \in Entries("draw") :
          ~log[i].textonly /\ nodes[log[i].self].accept /\ Len(log[i].circles) = 2
    /\ \E i \in Entries("draw") :
          ~log[i].textonly /\ ~nodes[log[i].self].accept /\ Len(log[i].circles) = 1

\* C2: A.arrowto(B) adds one arrow whose start point is at distance rA from pA along
\* the direction from A to B, and whose end point is at distance rB from pB along
\* the same direction (on B's side facing A).
C2_ArrowOnBoundaryAlongAB ==
    \A i \in Entries("arrowto") :
        LET A == nodes[log[i].self]
            B == nodes[log[i].other]
            a == ShapeOf(i)
        IN  /\ OneArrow(i)
            /\ OnCircle(a.start, A.xy, A.radius)
            /\ OnCircle(a.end, B.xy, B.radius)
            /\ A.xy # B.xy =>
                  /\ SameAngle(Bearing(A.xy, a.start), Bearing(A.xy, B.xy))
                  /\ SameAngle(Bearing(a.end, B.xy), Bearing(A.xy, B.xy))

\* the unit vector arrowto takes for the direction from self to other
ArrowtoDir(A, B) == dir2d(ArrowtoAngle(A, B))

\* the part of the offset from A's centre to B's along arrowto's direction is at
\* least the sum of the radii
Projected(A, B) ==
    Dot(VSub(B.xy, A.xy), ArrowtoDir(A, B)) >= (A.radius + B.radius) * FIX

NoOverlap(i) ==
    LET A == nodes[log[i].self]
        B == nodes[log[i].other]
        a == ShapeOf(i)
    IN  /\ ~SegmentEnters(a.start, a.end, A.xy, A.radius)
        /\ ~SegmentEnters(a.start, a.end, B.xy, B.radius)

C4_StartIsRadius ==
    \A i \in Entries("arrowto") :
        (mode = "main" /\ log[i].self = "start_text") => ShapeOf(i).start = <<150, 0>>

\* C4, amended: in the example the arrow from start_text to q0 starts at
\* (-0.55, 0), the centre (-0.7, 0) of start_text moved by (0.15, 0).
C4_StartIsCentrePlusRadius ==
    \A i \in Entries("arrowto") :
        (mode = "main" /\ log[i].self = "start_text") => ShapeOf(i).start = <<-550, 0>>

C4_Witness ==
    \E i \in Entries("arrowto") :
        mode = "main" /\ log[i].self = "start_text" /\ log[i].other = "q0"

\* C5: loop(deg) adds exactly one arrow; its start and end are at the node's radius
\* from the node's centre, at the angles deg-10 and deg+10; its connection style is
\* the arc built from these two angles when the caller gave none (or None), and the
\* caller's otherwise.
C5_Loop ==
    \A i \in Entries("loop") :
        LET e == log[i]
            n == nodes[e.self]
            a == ShapeOf(i)
            given == Get(e.kwargs, "connectionstyle", NoneStyle)
        IN  /\ OneArrow(i)
            /\ OnCircle(a.start, n.xy, n.radius)
            /\ OnCircle(a.end, n.xy, n.radius)
            /\ SameAngle(Bearing(n.xy, a.start), Radians(e.deg - 10 * FIX))
            /\ SameAngle(Bearing(n.xy, a.end), Radians(e.deg + 10 * FIX))
            /\ a.connectionstyle =
                  IF given = NoneStyle
                  THEN [style |-> "arc", angleA |-> e.deg - 10 * FIX,
                        angleB |-> e.deg + 10 * FIX,
                        armA |-> 100, armB |-> 100, rad |-> 30]
                  ELSE given

C5_Witness ==
    \E i \in Entries("loop") :
        /\ "connectionstyle" \in DOMAIN log[i].kwargs
        /\ log[i].kwargs.connectionstyle = ARC3
        /\ ShapeOf(i).connectionstyle = ARC3

\* C6: the style create_arrow_patch builds is the default style with every caller
\* override replacing the default of its key, and a non-None color override sets
\* both fc and ec, also when the caller gave fc or ec.
C6_ArrowStyle ==
    \A i \in Entries("arrowto") \cup Entries("curvearrowto") :
        LET kw == log[i].kwargs
            params == ShapeOf(i).params
            color == Get(kw, "color", None)
        IN  /\ DOMAIN params = DOMAIN DEFAULT_ARROW_STYLE \cup DOMAIN kw
            /\ \A k \in DOMAIN params :
                  params[k] =
                      IF color # None /\ k \in {"fc", "ec"} THEN color
                      ELSE IF k \in DOMAIN kw THEN kw[k]
                      ELSE DEFAULT_ARROW_STYLE[k]

C6_Witness ==
    \E i \in Entries("arrowto") :
        LET kw == log[i].kwargs
        IN  /\ {"color", "fc", "ec", "lw"} \subseteq DOMAIN kw
            /\ kw.color = "y"
            /\ kw.fc = "b"
            /\ ShapeOf(i).params.fc = "y"
            /\ ShapeOf(i).params.ec = "y"
            /\ ShapeOf(i).params.lw = 2000

IsShadow(j) == surface[j].kind = "shadow"

\* the caller's overrides put shape j of call i at the shadows' level or below
LowOverride(i, j) ==
    /\ surface[j].kind \in {"arrow", "text"}
    /\ "zorder" \in DOMAIN log[i].kwargs
    /\ log[i].kwargs.zorder <= SHADOW_ZORDER

\* every shape is the work of one call, and the calls' shapes follow in call order
InCallOrder ==
    /\ \A j \in DOMAIN surface :
          \E i \in DOMAIN log : log[i].first <= j /\ j <= log[i].last
    /\ \A i \in DOMAIN log : i > 1 => log[i].first = log[i - 1].last + 1

AppendOnly ==
    /\ Len(surface') >= Len(surface)
    /\ SubSeq(surface', 1, Len(surface)) = surface

\* C7, as stated: every shadow on the surface has a zorder strictly below that of
\* every circle, arrow and text on it.
C7_ShadowsBelowAll ==
    \A s \in DOMAIN surface, j \in DOMAIN surface :
        (IsShadow(s) /\ ~IsShadow(j)) => surface[s].zorder < surface[j].zorder

C7_ShadowsBelow ==
    \A i \in DOMAIN log :
        \A j \in log[i].first..log[i].last :
            \A s \in DOMAIN surface :
                (IsShadow(s) /\ ~IsShadow(j) /\ ~LowOverride(i, j))
                    => surface[s].zorder < surface[j].zorder

\* C7, amended: shapes are only ever appended, in call order; every shadow has a
\* zorder strictly below that of every circle, and of every arrow and text whose
\* caller did not override its zorder with a value of -1 or less.
C7_Stacking ==
    /\ [](C7_ShadowsBelow /\ InCallOrder)
    /\ [][AppendOnly]_vars

\* an arrow is on the surface before a shadow, and a text after it
C7_Witness ==
    \E a \in DOMAIN surface, s \in DOMAIN surface, t \in DOMAIN surface :
        /\ a < s /\ s < t
        /\ surface[a].kind = "arrow" /\ IsShadow(s) /\ surface[t].kind = "text"
        /\ surface[s].zorder < surface[a].zorder

SameDraw(i, j) ==
    /\ log[i].self = log[j].self
    /\ log[i].textonly = log[j].textonly
    /\ log[i].color = log[j].color
    /\ log[i].kwargs = log[j].kwargs

IsDrawStep == Len(log') = Len(log) + 1 /\ log'[Len(log')].op = "draw"

\* C8: two calls of draw on one node with the same arguments add two equal
\* sequences of shapes, as separate entries of the surface; a call of draw changes
\* no field of any node and no module-level constant.
C8_DrawTwice ==
    /\ [](\A i \in Entries("draw"), j \in Entries("draw") :
              (i < j /\ SameDraw(i, j)) =>
                  /\ Shapes(i) = Shapes(j)
                  /\ log[i].last < log[j].first)
    /\ [][IsDrawStep => (nodes' = nodes /\ globals' = globals)]_vars

C8_Witness ==
    \E i \in Entries("draw"), j \in Entries("draw") :
        /\ i < j /\ SameDraw(i, j)
        /\ Len(Shapes(i)) = 5
        /\ Shapes(i) = Shapes(j)

AtEnd == mode = "main" /\ pc = Len(ExampleProgram) + 1
AtExport == mode = "main" /\ pc = Len(ExampleProgram)

\* the shapes of the example: four nodes (two circles, two shadows and a label
\* each), the label of start_text, four straight arrows, two loops, three curves
AllShapes ==
    /\ KindCount(surface, "circle") = 8
    /\ KindCount(surface, "shadow") = 8
    /\ KindCount(surface, "text") = 5
    /\ Cardinality({j \in DOMAIN surface : surface[j].kind = "arrow"
                                          /\ surface[j].connectionstyle.style = "arc3"}) = 4
    /\ Cardinality({j \in DOMAIN surface : surface[j].kind = "arrow"
                                          /\ surface[j].connectionstyle.style = "arc"}) = 2
    /\ Cardinality({j \in DOMAIN surface : surface[j].kind = "arrow"
                                          /\ surface[j].connectionstyle.style = "angle3"}) = 3

\* C9: in a run of the example the export happens once, at the end: it has not
\* happened before the last statement, every shape is on the surface when it
\* happens, it has happened once when the run is over, and no shape is added after.
C9_ExportOnceAtEnd ==
    /\ [](mode = "main" =>
              /\ saved = (IF AtEnd THEN 1 ELSE 0)
              /\ (AtExport \/ AtEnd) => AllShapes)
    /\ [][(mode = "main" /\ saved >= 1) => surface' = surface]_vars

C9_Witness == AtEnd /\ saved = 1 /\ Len(surface) = 30

\* C10: curvearrowto adds exactly one arrow; it starts on this node's boundary at
\* the angle angleA, ends on the other node's boundary arriving at the angle angleB,
\* wherever the other node lies; its connection style is angle3 of angleA and
\* angleB, whatever the caller's overrides.
C10_Curve ==
    \A i \in Entries("curvearrowto") :
        LET e == log[i]
            A == nodes[e.self]
            B == nodes[e.other]
            a == ShapeOf(i)
        IN  /\ OneArrow(i)
            /\ OnCircle(a.start, A.xy, A.radius)
            /\ SameAngle(Bearing(A.xy, a.start), Radians(e.angleA))
            /\ OnCircle(a.end, B.xy, B.radius)
            /\ SameAngle(Bearing(a.end, B.xy), Radians(e.angleB))
            /\ a.connectionstyle =
                  [style |-> "angle3", angleA |-> e.angleA, angleB |-> e.angleB]

\* the caller gave a connection style, and B lies far from the direction angleA
C10_Witness ==
    \E i \in Entries("curvearrowto") :
        LET e == log[i]
            A == nodes[e.self]
            B == nodes[e.other]
        IN  /\ "connectionstyle" \in DOMAIN e.kwargs
            /\ A.xy # B.xy
            /\ ~SameAngle(Bearing(A.xy, B.xy), Radians(e.angleA))
            /\ ShapeOf(i).connectionstyle.style = "angle3"

====
